---- MODULE Spec2Model ----
(***************************************************************************)
(* The audio upload pipeline of audio-to-text-app:                         *)
(*   AudioController.uploadAudio  ->  SpeechRecognitionService             *)
(*   .startRecognition -> streamToBuffer -> SpeechClient.recognize ->      *)
(*   map/join of the results -> HTTP response.                             *)
(* Every request r has its own handler invocation; the upload stream and   *)
(* the speech provider are the environment.                                *)
(***************************************************************************)
EXTENDS Integers, Sequences, FiniteSets, TLC

(* ------------------------------ bounds -------------------------------- *)
\* stream events (data/end/error) one upload stream may emit
MaxEvents == 3
\* segments (results) in one provider response
MaxSegs == 2

(* ------------------------------ values -------------------------------- *)
SoloReqs == {1}
PairReqs == {1, 2}

Undefined == "undefined"
\* req.file: absent, a file without a path on disk, a file stored on disk
NoFile == [present |-> FALSE, path |-> Undefined]
Files == {NoFile,
          [present |-> TRUE, path |-> Undefined],
          [present |-> TRUE, path |-> "uploads/audio"]}

\* the chunks a stream may deliver, as byte sequences
Chunks == {<<1>>, <<2, 3>>}
StreamErrors == {"EIO", "ENOENT"}

NL == "\n"
SeqsUpTo(S, n) == UNION {[1..k -> S] : k \in 0..n}
\* transcripts as character sequences
TextA == [transcript |-> <<"a">>]
TextB == [transcript |-> <<"b">>]
TextAB == [transcript |-> <<"a", "b">>]
TextEmpty == [transcript |-> <<>>]
\* the ranked alternatives a segment may carry (index 1 is the provider's best)
AltLists == {<<>>, <<TextA>>, <<TextB>>, <<TextEmpty>>,
             <<TextA, TextB>>, <<TextB, TextA>>, <<TextAB, TextB>>}
\* a segment is a record with its ranked alternatives
Segments == {[alternatives |-> a] : a \in AltLists}
ResultLists == SeqsUpTo(Segments, MaxSegs)

VARIABLES
    reqs,          \* the requests of this run
    supported,     \* whether the provider supports the decoding configuration
    pc,            \* position of each request's handler
    file,          \* req.file of each request
    events,        \* the events each upload stream has emitted so far
    chunks,        \* the chunks array of streamToBuffer
    bufPromise,    \* the promise streamToBuffer returned
    collectCalls,  \* number of streamToBuffer invocations
    submitted,     \* the requests passed to client.recognize
    provided,      \* how each recognize call settled
    responses      \* what was sent on res

vars == <<reqs, supported, pc, file, events, chunks, bufPromise, collectCalls,
          submitted, provided, responses>>

(* --------------------------- pure helpers ----------------------------- *)
RECURSIVE Concat(_)
\* Buffer.concat(chunks)
Concat(cs) == IF cs = <<>> THEN <<>> ELSE Head(cs) \o Concat(Tail(cs))

NoPromise == [state |-> "none", buffer |-> <<>>, reason |-> Undefined]
PendingPromise == [state |-> "pending", buffer |-> <<>>, reason |-> Undefined]

\* resolve/reject of a promise: only the first settlement takes effect
Resolve(p, buf) ==
    IF p.state = "pending" THEN [state |-> "fulfilled", buffer |-> buf, reason |-> Undefined]
    ELSE p
\* a rejection that replaces an outcome already settled
RejectAlways(p, err) ==
    IF p.state = "none" THEN p
    ELSE [state |-> "rejected", buffer |-> <<>>, reason |-> err]
Reject(p, err) ==
    IF p.state = "pending" THEN [state |-> "rejected", buffer |-> <<>>, reason |-> err]
    ELSE p

\* the data listener putting the new chunk in front of the earlier ones
OnDataPrepend(cs, c) == <<c>> \o cs
\* stream.on('data', chunk => chunks.push(Buffer.from(chunk)))
OnData(cs, c) == Append(cs, c)
\* the end listener treating an upload without data as an error
OnEndRejectEmpty(p, cs) ==
    IF cs = <<>> THEN Reject(p, "EMPTY") ELSE Resolve(p, Concat(cs))
\* stream.on('end', () => resolve(Buffer.concat(chunks)))
OnEnd(p, cs) == Resolve(p, Concat(cs))
\* the error listener handing on what was read so far
OnErrorPartial(p, cs, err) == Resolve(p, Concat(cs))
\* no listener for the stream's error event
OnErrorIgnored(p, cs, err) == p
\* stream.on('error', reject)
OnError(p, cs, err) == Reject(p, err)

DecodingConfig ==
    [encoding |-> "LINEAR16", sampleRateHertz |-> 16000, languageCode |-> "en-US"]

\* the sample rate chosen from the uploaded bytes instead of the constant
RecognizeRequestSniffing(buf) ==
    [audio |-> [content |-> buf],
     config |-> [DecodingConfig EXCEPT
                    !.sampleRateHertz = IF buf # <<>> /\ buf[1] = 2 THEN 8000 ELSE @]]
\* the request object startRecognition builds
RecognizeRequest(buf) == [audio |-> [content |-> buf], config |-> DecodingConfig]

\* result.alternatives[0].transcript: throws a TypeError when there is no
\* alternative at index 0
HasFirst(seg) == Len(seg.alternatives) >= 1
\* the lowest-ranked alternative taken instead of index 0
LastTranscript(seg) == seg.alternatives[Len(seg.alternatives)].transcript
FirstTranscript(seg) == seg.alternatives[1].transcript

RECURSIVE Join(_)
\* Array.prototype.join('\n')
Join(ts) ==
    IF ts = <<>> THEN <<>>
    ELSE IF Len(ts) = 1 THEN ts[1]
    ELSE ts[1] \o <<NL>> \o Join(Tail(ts))

\* the map reading a missing alternative as the empty text instead of
\* throwing (result.alternatives[0]?.transcript)
TranscriptionLenient(results) ==
    [ok |-> TRUE,
     text |-> Join([i \in 1..Len(results) |->
                       IF HasFirst(results[i]) THEN FirstTranscript(results[i]) ELSE <<>>])]
RECURSIVE FirstsSkipping(_)
FirstsSkipping(results) ==
    IF results = <<>> THEN <<>>
    ELSE IF HasFirst(Head(results))
    THEN <<FirstTranscript(Head(results))>> \o FirstsSkipping(Tail(results))
    ELSE FirstsSkipping(Tail(results))
\* the map skipping segments without alternatives instead of throwing
TranscriptionSkipping(results) ==
    [ok |-> TRUE, text |-> Join(FirstsSkipping(results))]
\* response.results.map(result => result.alternatives[0].transcript).join('\n')
Transcription(results) ==
    IF \A i \in 1..Len(results) : HasFirst(results[i])
    THEN [ok |-> TRUE,
          text |-> Join([i \in 1..Len(results) |-> FirstTranscript(results[i])])]
    ELSE [ok |-> FALSE, text |-> <<>>]

MissingResponse == [status |-> 400, send |-> "No audio file uploaded."]
SuccessResponse(t) == [status |-> 200, json |-> [transcription |-> t]]
\* the catch block answering with the client-error status
ErrorResponseBadRequest == [status |-> 400, send |-> "Error processing audio file."]
ErrorResponse == [status |-> 500, send |-> "Error processing audio file."]

\* the file check left out
MissingFileUnchecked(f) == FALSE
\* if (!audioFile)
MissingFile(f) == ~f.present

(* ------------------------------ state --------------------------------- *)
Start(R) ==
    /\ reqs = R
    /\ supported \in BOOLEAN
    /\ pc = [r \in PairReqs |-> "Idle"]
    /\ file = [r \in PairReqs |-> NoFile]
    /\ events = [r \in PairReqs |-> <<>>]
    /\ chunks = [r \in PairReqs |-> <<>>]
    /\ bufPromise = [r \in PairReqs |-> NoPromise]
    /\ collectCalls = [r \in PairReqs |-> 0]
    /\ submitted = [r \in PairReqs |-> <<>>]
    /\ provided = [r \in PairReqs |-> <<>>]
    /\ responses = [r \in PairReqs |-> <<>>]

Init == Start(SoloReqs)
InitPair == Start(PairReqs)

Solo == Cardinality(reqs) = 1
\* what the environment may deliver; two requests in flight get the smaller
\* alphabet
EventBudget == IF Solo THEN MaxEvents ELSE MaxEvents - 1
ResultChoices ==
    IF Solo THEN ResultLists
    ELSE {rs \in ResultLists : Len(rs) <= 1 /\ \A i \in 1..Len(rs) : Len(rs[i].alternatives) <= 1}
FileChoices == Files

Respond(r, resp) == responses' = [responses EXCEPT ![r] = Append(@, resp)]

(* ----------------------------- actions -------------------------------- *)
\* router.post('/upload', ...): a request arrives with its req.file
Post(r, f) ==
    /\ pc[r] = "Idle"
    /\ pc' = [pc EXCEPT ![r] = "Received"]
    /\ file' = [file EXCEPT ![r] = f]
    /\ UNCHANGED <<reqs, supported, events, chunks, bufPromise, collectCalls,
                   submitted, provided, responses>>

\* uploadAudio with the `return` after the 400 answer left out: the handler
\* goes on to startRecognition(undefined), which throws into the catch block
UploadAudioNoReturn(r) ==
    /\ pc[r] = "Received"
    /\ IF MissingFile(file[r]) \/ file[r].path = Undefined
       THEN /\ responses' = [responses EXCEPT
                                ![r] = IF MissingFile(file[r])
                                       THEN @ \o <<MissingResponse, ErrorResponse>>
                                       ELSE Append(@, ErrorResponse)]
            /\ pc' = [pc EXCEPT ![r] = "Failed"]
            /\ UNCHANGED <<bufPromise, collectCalls>>
       ELSE /\ collectCalls' = [collectCalls EXCEPT ![r] = @ + 1]
            /\ bufPromise' = [bufPromise EXCEPT ![r] = PendingPromise]
            /\ pc' = [pc EXCEPT ![r] = "Collecting"]
            /\ UNCHANGED responses
    /\ UNCHANGED <<reqs, supported, file, events, chunks, submitted, provided>>

\* uploadAudio up to its first await: the file check, then startRecognition
\* up to `await this.streamToBuffer(audioStream)`
UploadAudio(r) ==
    /\ pc[r] = "Received"
    /\ IF MissingFile(file[r])
       THEN /\ Respond(r, MissingResponse)
            /\ pc' = [pc EXCEPT ![r] = "Failed"]
            /\ UNCHANGED <<bufPromise, collectCalls>>
       ELSE IF file[r].path = Undefined
       THEN \* createReadStream(undefined) throws, caught by uploadAudio
            /\ Respond(r, ErrorResponse)
            /\ pc' = [pc EXCEPT ![r] = "Failed"]
            /\ UNCHANGED <<bufPromise, collectCalls>>
       ELSE /\ collectCalls' = [collectCalls EXCEPT ![r] = @ + 1]
            /\ bufPromise' = [bufPromise EXCEPT ![r] = PendingPromise]
            /\ pc' = [pc EXCEPT ![r] = "Collecting"]
            /\ UNCHANGED responses
    /\ UNCHANGED <<reqs, supported, file, events, chunks, submitted, provided>>

StreamOpen(r) == collectCalls[r] > 0 /\ Len(events[r]) < EventBudget

\* the chunks array kept in a field of the one service instance, so that
\* every stream in flight pushes onto the same array
StreamDataShared(r, c) ==
    /\ StreamOpen(r)
    /\ events' = [events EXCEPT ![r] = Append(@, [type |-> "data", chunk |-> c])]
    /\ chunks' = [q \in PairReqs |->
                     IF collectCalls[q] > 0 THEN OnData(chunks[q], c) ELSE chunks[q]]
    /\ UNCHANGED <<reqs, supported, pc, file, bufPromise, collectCalls,
                   submitted, provided, responses>>

StreamData(r, c) ==
    /\ StreamOpen(r)
    /\ events' = [events EXCEPT ![r] = Append(@, [type |-> "data", chunk |-> c])]
    /\ chunks' = [chunks EXCEPT ![r] = OnData(@, c)]
    /\ UNCHANGED <<reqs, supported, pc, file, bufPromise, collectCalls,
                   submitted, provided, responses>>

StreamEnd(r) ==
    /\ StreamOpen(r)
    /\ events' = [events EXCEPT ![r] = Append(@, [type |-> "end", chunk |-> <<>>])]
    /\ bufPromise' = [bufPromise EXCEPT ![r] = OnEnd(@, chunks[r])]
    /\ UNCHANGED <<reqs, supported, pc, file, chunks, collectCalls,
                   submitted, provided, responses>>

StreamError(r, err) ==
    /\ StreamOpen(r)
    /\ events' = [events EXCEPT ![r] = Append(@, [type |-> "error", chunk |-> <<>>])]
    /\ bufPromise' = [bufPromise EXCEPT ![r] = OnError(@, chunks[r], err)]
    /\ UNCHANGED <<reqs, supported, pc, file, chunks, collectCalls,
                   submitted, provided, responses>>

\* startRecognition checking the configuration against the provider before
\* the call, and throwing without calling when it is not supported
AwaitBufferValidating(r) ==
    /\ pc[r] = "Collecting"
    /\ bufPromise[r].state \in {"fulfilled", "rejected"}
    /\ IF bufPromise[r].state = "fulfilled" /\ supported
       THEN /\ submitted' = [submitted EXCEPT
                                ![r] = Append(@, RecognizeRequest(bufPromise[r].buffer))]
            /\ pc' = [pc EXCEPT ![r] = "Transcribing"]
            /\ UNCHANGED responses
       ELSE /\ Respond(r, ErrorResponse)
            /\ pc' = [pc EXCEPT ![r] = "Failed"]
            /\ UNCHANGED submitted
    /\ UNCHANGED <<reqs, supported, file, events, chunks, bufPromise,
                   collectCalls, provided>>

\* startRecognition going on to the provider call without waiting for the
\* stream to end, with what has been read so far
AwaitBufferNoAwait(r) ==
    /\ pc[r] = "Collecting"
    /\ submitted' = [submitted EXCEPT
                        ![r] = Append(@, RecognizeRequest(Concat(chunks[r])))]
    /\ pc' = [pc EXCEPT ![r] = "Transcribing"]
    /\ UNCHANGED <<reqs, supported, file, events, chunks, bufPromise,
                   collectCalls, provided, responses>>

\* the catch block sending the caught error's message as the body
AwaitBufferLeaking(r) ==
    /\ pc[r] = "Collecting"
    /\ bufPromise[r].state \in {"fulfilled", "rejected"}
    /\ IF bufPromise[r].state = "fulfilled"
       THEN /\ submitted' = [submitted EXCEPT
                                ![r] = Append(@, RecognizeRequest(bufPromise[r].buffer))]
            /\ pc' = [pc EXCEPT ![r] = "Transcribing"]
            /\ UNCHANGED responses
       ELSE /\ Respond(r, [status |-> 500, send |-> bufPromise[r].reason])
            /\ pc' = [pc EXCEPT ![r] = "Failed"]
            /\ UNCHANGED submitted
    /\ UNCHANGED <<reqs, supported, file, events, chunks, bufPromise,
                   collectCalls, provided>>

\* startRecognition resumes after `await this.streamToBuffer(...)`
AwaitBuffer(r) ==
    /\ pc[r] = "Collecting"
    /\ bufPromise[r].state \in {"fulfilled", "rejected"}
    /\ IF bufPromise[r].state = "fulfilled"
       THEN /\ submitted' = [submitted EXCEPT
                                ![r] = Append(@, RecognizeRequest(bufPromise[r].buffer))]
            /\ pc' = [pc EXCEPT ![r] = "Transcribing"]
            /\ UNCHANGED responses
       ELSE /\ Respond(r, ErrorResponse)
            /\ pc' = [pc EXCEPT ![r] = "Failed"]
            /\ UNCHANGED submitted
    /\ UNCHANGED <<reqs, supported, file, events, chunks, bufPromise,
                   collectCalls, provided>>

\* the transcription accumulated in a field of the one service instance:
\* a run starts from the text the runs completed before it left there
RecognizeReturnsAccumulating(r, results) ==
    /\ pc[r] = "Transcribing"
    /\ supported
    /\ provided' = [provided EXCEPT
                       ![r] = Append(@, [ok |-> TRUE, results |-> results, reason |-> Undefined])]
    /\ LET t == Transcription(results)
           done == {q \in reqs : pc[q] = "Completed"}
           left == IF done = {} THEN <<>>
                   ELSE responses[CHOOSE q \in done : TRUE][1].json.transcription
       IN
       IF t.ok
       THEN /\ Respond(r, SuccessResponse(left \o t.text))
            /\ pc' = [pc EXCEPT ![r] = "Completed"]
       ELSE /\ Respond(r, ErrorResponse)
            /\ pc' = [pc EXCEPT ![r] = "Failed"]
    /\ UNCHANGED <<reqs, supported, file, events, chunks, bufPromise,
                   collectCalls, submitted>>

\* client.recognize resolves; startRecognition assembles the transcription
\* and uploadAudio answers
RecognizeReturns(r, results) ==
    /\ pc[r] = "Transcribing"
    /\ supported
    /\ provided' = [provided EXCEPT
                       ![r] = Append(@, [ok |-> TRUE, results |-> results, reason |-> Undefined])]
    /\ LET t == Transcription(results) IN
       IF t.ok
       THEN /\ Respond(r, SuccessResponse(t.text))
            /\ pc' = [pc EXCEPT ![r] = "Completed"]
       ELSE /\ Respond(r, ErrorResponse)
            /\ pc' = [pc EXCEPT ![r] = "Failed"]
    /\ UNCHANGED <<reqs, supported, file, events, chunks, bufPromise,
                   collectCalls, submitted>>

\* what client.recognize may reject with
ProviderErrors ==
    IF supported THEN {"UNAVAILABLE", "RESOURCE_EXHAUSTED"} ELSE {"INVALID_ARGUMENT"}

\* a rejected recognize call submitted a second time before giving up
RecognizeFailsRetry(r, err) ==
    /\ pc[r] = "Transcribing"
    /\ provided' = [provided EXCEPT
                       ![r] = Append(@, [ok |-> FALSE, results |-> <<>>, reason |-> err])]
    /\ IF Len(submitted[r]) < 2
       THEN /\ submitted' = [submitted EXCEPT ![r] = Append(@, submitted[r][1])]
            /\ UNCHANGED <<pc, responses>>
       ELSE /\ Respond(r, ErrorResponse)
            /\ pc' = [pc EXCEPT ![r] = "Failed"]
            /\ UNCHANGED submitted
    /\ UNCHANGED <<reqs, supported, file, events, chunks, bufPromise, collectCalls>>

\* the catch block sending the provider's error detail as the body
RecognizeFailsLeaking(r, err) ==
    /\ pc[r] = "Transcribing"
    /\ provided' = [provided EXCEPT
                       ![r] = Append(@, [ok |-> FALSE, results |-> <<>>, reason |-> err])]
    /\ Respond(r, [status |-> 500, send |-> err])
    /\ pc' = [pc EXCEPT ![r] = "Failed"]
    /\ UNCHANGED <<reqs, supported, file, events, chunks, bufPromise,
                   collectCalls, submitted>>

\* client.recognize rejects; the rejection reaches uploadAudio's catch
RecognizeFails(r, err) ==
    /\ pc[r] = "Transcribing"
    /\ provided' = [provided EXCEPT
                       ![r] = Append(@, [ok |-> FALSE, results |-> <<>>, reason |-> err])]
    /\ Respond(r, ErrorResponse)
    /\ pc' = [pc EXCEPT ![r] = "Failed"]
    /\ UNCHANGED <<reqs, supported, file, events, chunks, bufPromise,
                   collectCalls, submitted>>

Next ==
    \/ \E r \in reqs, f \in FileChoices : Post(r, f)
    \/ \E r \in reqs : UploadAudio(r)
    \/ \E r \in reqs, c \in Chunks : StreamData(r, c)
    \/ \E r \in reqs : StreamEnd(r)
    \/ \E r \in reqs, e \in StreamErrors : StreamError(r, e)
    \/ \E r \in reqs : AwaitBuffer(r)
    \/ \E r \in reqs, rs \in ResultChoices : RecognizeReturns(r, rs)
    \/ \E r \in reqs, e \in ProviderErrors : RecognizeFails(r, e)

Spec == Init /\ [][Next]_vars
SpecPair == InitPair /\ [][Next]_vars

\* the awaited client.recognize call settles, one way or the other
ProviderSettles(r) ==
    \/ \E rs \in ResultChoices : RecognizeReturns(r, rs)
    \/ \E e \in ProviderErrors : RecognizeFails(r, e)

\* The event loop runs a handler that can go on (the synchronous start of
\* uploadAudio, the continuation of a settled await), and the provider call
\* settles. Nothing is assumed about the upload stream.
SpecLive ==
    /\ Init /\ [][Next]_vars
    /\ \A r \in SoloReqs :
           /\ WF_vars(UploadAudio(r))
           /\ WF_vars(AwaitBuffer(r))
           /\ WF_vars(ProviderSettles(r))

(* ------------------------- shared vocabulary -------------------------- *)
Terminal(r) == pc[r] \in {"Completed", "Failed"}
Answered(r) == Len(responses[r]) = 1
Answer(r) == responses[r][1]
HasTranscript(resp) == "json" \in DOMAIN resp

\* the stream emitted end before any error: collection succeeds
EndedFirst(r) ==
    \E i \in 1..Len(events[r]) :
        /\ events[r][i].type = "end"
        /\ \A j \in 1..(i - 1) : events[r][j].type = "data"
\* the stream emitted error before any end: collection fails
FailedFirst(r) ==
    \E i \in 1..Len(events[r]) :
        /\ events[r][i].type = "error"
        /\ \A j \in 1..(i - 1) : events[r][j].type = "data"
\* the continuation of `await streamToBuffer` has run
PastCollecting(r) == pc[r] \in {"Transcribing", "Completed", "Failed"}

ProviderCalled(r) == Len(submitted[r]) >= 1
ProviderReturned(r) == provided[r] # <<>> /\ provided[r][1].ok
ProviderRaised(r) == provided[r] # <<>> /\ ~provided[r][1].ok
AllHaveAlternatives(rs) == \A i \in 1..Len(rs) : rs[i].alternatives # <<>>

(* ------------------------------- C1 ----------------------------------- *)
\* C1: a request that carries no audio file is answered with status 400, and
\* on that path streamToBuffer is never invoked, the stream emits nothing to
\* the handler and recognize is never called.
C1_MissingPayload ==
    \A r \in reqs :
        (pc[r] # "Idle" /\ ~file[r].present) =>
            /\ collectCalls[r] = 0
            /\ events[r] = <<>>
            /\ submitted[r] = <<>>
            /\ provided[r] = <<>>
            /\ pc[r] \in {"Received", "Failed"}
            /\ pc[r] = "Failed" => (Answered(r) /\ Answer(r).status = 400)

C1_Witness ==
    \E r \in reqs : ~file[r].present /\ pc[r] = "Failed" /\ Answer(r).status = 400

(* ------------------------------- C2 ----------------------------------- *)
\* C2: every request gets exactly one response on every path: none before
\* the handler reaches Completed or Failed, exactly one from then on, and
\* once the outcome is produced the handler neither answers again nor calls
\* streamToBuffer or recognize again.
C2_OneResponse ==
    /\ [](\A r \in reqs :
            /\ Len(responses[r]) <= 1
            /\ Terminal(r) <=> Answered(r))
    /\ [][\A r \in reqs :
            Terminal(r) =>
                /\ pc'[r] = pc[r]
                /\ responses'[r] = responses[r]
                /\ submitted'[r] = submitted[r]
                /\ provided'[r] = provided[r]
                /\ collectCalls'[r] = collectCalls[r]]_vars

\* a request has answered, and its stream went on emitting after the end
C2_Witness ==
    \E r \in reqs :
        /\ pc[r] = "Completed" /\ Answered(r)
        /\ Len(events[r]) >= 2 /\ events[r][1].type = "end"

(* ------------------------------- C3 ----------------------------------- *)
\* C3: the status mapping is total and exclusive: 200 with a body
\* {transcription: text} exactly when collection and transcription both
\* succeed, 400 exactly when the request has no file, 500 for every other
\* failure.
C3_Succeeded(r) ==
    /\ file[r].present /\ file[r].path # Undefined
    /\ EndedFirst(r)
    /\ ProviderReturned(r)
    /\ AllHaveAlternatives(provided[r][1].results)

C3_StatusMapping ==
    \A r \in reqs :
        Terminal(r) =>
            /\ Answered(r)
            /\ Answer(r).status \in {200, 400, 500}
            /\ Answer(r).status = 200 <=> C3_Succeeded(r)
            /\ Answer(r).status = 200 <=> HasTranscript(Answer(r))
            /\ Answer(r).status = 400 <=> ~file[r].present
            /\ Answer(r).status = 500 <=> (file[r].present /\ ~C3_Succeeded(r))

\* a failure other than the missing file (here the provider's) has been
\* answered with 500
C3_Witness ==
    \E r \in reqs :
        /\ Terminal(r) /\ file[r].present /\ ~C3_Succeeded(r)
        /\ ProviderRaised(r)
        /\ Answer(r).status = 500

(* ------------------------------- C4 ----------------------------------- *)
RECURSIVE SplitLines(_)
\* the parts of a text between its newlines
SplitLines(t) ==
    IF \A i \in 1..Len(t) : t[i] # NL THEN <<t>>
    ELSE LET i == CHOOSE k \in 1..Len(t) :
                      t[k] = NL /\ \A j \in 1..(k - 1) : t[j] # NL
         IN <<SubSeq(t, 1, i - 1)>> \o SplitLines(SubSeq(t, i + 1, Len(t)))

\* C4: when every segment of the provider's response has an alternative, the
\* request completes and the transcript sent consists of exactly one part
\* per segment, in the provider's order, each part being the segment's
\* alternative at index 0 (the empty string when there is no segment).
C4_TopAlternativesInOrder ==
    \A r \in reqs :
        (ProviderReturned(r) /\ AllHaveAlternatives(provided[r][1].results)) =>
            LET rs == provided[r][1].results IN
            /\ pc[r] = "Completed" /\ Answered(r) /\ HasTranscript(Answer(r))
            /\ LET text == Answer(r).json.transcription IN
               IF rs = <<>> THEN text = <<>>
               ELSE /\ Len(SplitLines(text)) = Len(rs)
                    /\ \A i \in 1..Len(rs) :
                           SplitLines(text)[i] = rs[i].alternatives[1].transcript

\* two segments out of alphabetical order, the first with a lower-ranked
\* alternative
C4_Witness ==
    \E r \in reqs :
        /\ ProviderReturned(r)
        /\ provided[r][1].results =
               <<[alternatives |-> <<TextB, TextA>>], [alternatives |-> <<TextA>>]>>
        /\ pc[r] = "Completed"
        /\ Answer(r).json.transcription = <<"b", NL, "a">>

(* ------------------------------- C5 ----------------------------------- *)
\* C5: when the upload stream reports an error before its end, the request
\* can only end as a failure (status 500, no transcription), and recognize
\* is never called: nothing of what was read is submitted to the provider.
C5_StreamFailure ==
    \A r \in reqs :
        FailedFirst(r) =>
            /\ submitted[r] = <<>>
            /\ provided[r] = <<>>
            /\ pc[r] \in {"Collecting", "Failed"}
            /\ pc[r] = "Failed" =>
                   (Answered(r) /\ Answer(r).status = 500 /\ ~HasTranscript(Answer(r)))

\* data was read, then the stream failed, and the request has been answered
C5_Witness ==
    \E r \in reqs :
        /\ Len(events[r]) >= 2
        /\ events[r][1].type = "data" /\ events[r][2].type = "error"
        /\ chunks[r] # <<>>
        /\ pc[r] = "Failed"

(* ------------------------------- C6 ----------------------------------- *)
\* C6: recognize is invoked at most once per request, exactly once as soon
\* as the handler has resumed from a successful collection, and a call that
\* failed is not repeated.
C6_RecognizeOnce ==
    \A r \in reqs :
        /\ Len(submitted[r]) <= 1
        /\ Len(provided[r]) <= Len(submitted[r])
        /\ (file[r].present /\ EndedFirst(r) /\ PastCollecting(r)) => Len(submitted[r]) = 1
        /\ ProviderRaised(r) => (Len(submitted[r]) = 1 /\ pc[r] = "Failed")

\* the single call failed and the request is over
C6_Witness ==
    \E r \in reqs : ProviderRaised(r) /\ Len(submitted[r]) = 1 /\ pc[r] = "Failed"

(* ------------------------------- C7 ----------------------------------- *)
\* C7: no response carries a transcription next to a failure: a response
\* with another status than 200 has no transcription, and when the provider
\* call raised or a segment could not be assembled, no response of the
\* request carries a transcription.
C7_AllOrNothing ==
    \A r \in reqs :
        /\ \A i \in 1..Len(responses[r]) :
               responses[r][i].status # 200 => ~HasTranscript(responses[r][i])
        /\ (ProviderRaised(r)
            \/ (ProviderReturned(r) /\ ~AllHaveAlternatives(provided[r][1].results))) =>
               /\ pc[r] = "Failed"
               /\ \A i \in 1..Len(responses[r]) :
                      responses[r][i].status = 500 /\ ~HasTranscript(responses[r][i])

\* the first segment was assembled, the second has no alternative
C7_Witness ==
    \E r \in reqs :
        /\ ProviderReturned(r)
        /\ provided[r][1].results =
               <<[alternatives |-> <<TextA>>], [alternatives |-> <<>>]>>
        /\ pc[r] = "Failed" /\ Answered(r)

(* ------------------------------- C8 ----------------------------------- *)
\* C8: a stream that ends without having emitted data is collected into the
\* empty buffer, the empty buffer is what recognize receives, and when the
\* provider returns no segment the request completes with the empty string.
C8_ZeroLength(r) == events[r] # <<>> /\ events[r][1].type = "end"

C8_EmptyUpload ==
    \A r \in reqs :
        C8_ZeroLength(r) =>
            /\ bufPromise[r].state = "fulfilled" /\ bufPromise[r].buffer = <<>>
            /\ PastCollecting(r) =>
                   (Len(submitted[r]) = 1 /\ submitted[r][1].audio.content = <<>>)
            /\ (pc[r] = "Failed") => provided[r] # <<>>
            /\ (ProviderReturned(r) /\ provided[r][1].results = <<>>) =>
                   /\ pc[r] = "Completed"
                   /\ responses[r] = <<[status |-> 200, json |-> [transcription |-> <<>>]]>>

C8_Witness ==
    \E r \in reqs :
        /\ C8_ZeroLength(r)
        /\ ProviderReturned(r) /\ provided[r][1].results = <<>>
        /\ pc[r] = "Completed"

(* ------------------------------- C9 ----------------------------------- *)
\* C9 as stated: when the provider does not support the decoding
\* configuration, recognize is never invoked.
C9_Original ==
    \A r \in reqs : ~supported => submitted[r] = <<>>

\* C9 as the code has it: the configuration is not checked before the call.
\* When the provider does not support it, recognize is still invoked once
\* with the fixed configuration as soon as the buffer is collected, the call
\* is what fails, and the answer is the same status 500 with the fixed text
\* that any other failure gets.
C9_NoPreValidation ==
    \A r \in reqs :
        (~supported /\ file[r].present /\ EndedFirst(r) /\ PastCollecting(r)) =>
            /\ Len(submitted[r]) = 1
            /\ submitted[r][1].config =
                   [encoding |-> "LINEAR16", sampleRateHertz |-> 16000,
                    languageCode |-> "en-US"]
            /\ ~ProviderReturned(r)
            /\ Terminal(r) =>
                   /\ ProviderRaised(r)
                   /\ responses[r] =
                          <<[status |-> 500, send |-> "Error processing audio file."]>>

\* the unsupported configuration was submitted and rejected by the provider
C9_Witness ==
    \E r \in reqs :
        /\ ~supported
        /\ Len(submitted[r]) = 1
        /\ ProviderRaised(r) /\ provided[r][1].reason = "INVALID_ARGUMENT"
        /\ pc[r] = "Failed"

(* ------------------------------- C10 ---------------------------------- *)
\* C10 as stated: a request that failed on a read error of its upload
\* stream and a request that failed on the provider call end with different
\* failure outcomes.
C10_Original ==
    \A r1, r2 \in reqs :
        (Terminal(r1) /\ FailedFirst(r1) /\ Terminal(r2) /\ ProviderRaised(r2)) =>
            responses[r1] # responses[r2]

\* C10 as the code has it: the outcome does not record where the failure
\* came from. A read error of the upload stream and a failure of the
\* provider call are both answered with status 500 and the same fixed text.
C10_SameFailureOutcome ==
    \A r1, r2 \in reqs :
        (Terminal(r1) /\ FailedFirst(r1) /\ Terminal(r2) /\ ProviderRaised(r2)) =>
            /\ responses[r1] = responses[r2]
            /\ Answered(r1) /\ Answer(r1).status = 500
            /\ DOMAIN Answer(r1) = {"status", "send"}

\* one request failed on its stream, the other on the provider
C10_Witness ==
    \E r1, r2 \in reqs :
        /\ r1 # r2
        /\ Terminal(r1) /\ FailedFirst(r1)
        /\ Terminal(r2) /\ ProviderRaised(r2)

(* ------------------------------- C11 ---------------------------------- *)
\* C11: every request passed to recognize carries the same decoding
\* configuration (LINEAR16, 16000 Hz, en-US), whatever file the request
\* carried and whatever bytes its stream delivered.
C11_FixedConfig ==
    \A r \in reqs :
        \A i \in 1..Len(submitted[r]) :
            /\ submitted[r][i].config.encoding = "LINEAR16"
            /\ submitted[r][i].config.sampleRateHertz = 16000
            /\ submitted[r][i].config.languageCode = "en-US"
            /\ DOMAIN submitted[r][i].config =
                   {"encoding", "sampleRateHertz", "languageCode"}

\* a non-empty upload starting with the byte 2 was submitted
C11_Witness ==
    \E r \in reqs :
        /\ Len(submitted[r]) = 1
        /\ submitted[r][1].audio.content = <<2, 3, 1>>
        /\ submitted[r][1].config.sampleRateHertz = 16000

(* ------------------------------- C12 ---------------------------------- *)
RECURSIVE DataChunks(_)
\* the chunks of the data events of a stream history, in order
DataChunks(evs) ==
    IF evs = <<>> THEN <<>>
    ELSE IF Head(evs).type = "data" THEN <<Head(evs).chunk>> \o DataChunks(Tail(evs))
    ELSE DataChunks(Tail(evs))

RECURSIVE DataBeforeEnd(_)
\* the chunks delivered before the first end or error event
DataBeforeEnd(evs) ==
    IF evs = <<>> \/ Head(evs).type # "data" THEN <<>>
    ELSE <<Head(evs).chunk>> \o DataBeforeEnd(Tail(evs))

\* the response request r gets from its own file, stream and provider call
C12_Alone(r) ==
    IF ~file[r].present THEN [status |-> 400, send |-> "No audio file uploaded."]
    ELSE IF file[r].path # Undefined /\ EndedFirst(r) /\ ProviderReturned(r)
            /\ AllHaveAlternatives(provided[r][1].results)
    THEN [status |-> 200,
          json |-> [transcription |-> Transcription(provided[r][1].results).text]]
    ELSE [status |-> 500, send |-> "Error processing audio file."]

\* the state of request q is the same before and after the step
C12_Untouched(q) ==
    /\ pc'[q] = pc[q] /\ file'[q] = file[q] /\ events'[q] = events[q]
    /\ chunks'[q] = chunks[q] /\ bufPromise'[q] = bufPromise[q]
    /\ collectCalls'[q] = collectCalls[q] /\ submitted'[q] = submitted[q]
    /\ provided'[q] = provided[q] /\ responses'[q] = responses[q]

\* C12: with two requests in flight, in every interleaving each request's
\* chunks array holds exactly the chunks of its own stream, the buffer it
\* submits is made of its own chunks, its response is the one its own inputs
\* determine, and no step of one request changes the state of the other.
C12_NoInterference ==
    /\ [](\A r \in reqs :
            /\ chunks[r] = DataChunks(events[r])
            /\ \A i \in 1..Len(submitted[r]) :
                   submitted[r][i].audio.content = Concat(DataBeforeEnd(events[r]))
            /\ Terminal(r) => responses[r] = <<C12_Alone(r)>>)
    /\ [][\E r \in reqs : \A q \in reqs \ {r} : C12_Untouched(q)]_vars

\* both requests are in flight, each having read a chunk of its own
C12_Witness ==
    /\ reqs = PairReqs
    /\ pc[1] = "Transcribing" /\ submitted[1][1].audio.content = <<1>>
    /\ pc[2] = "Collecting" /\ chunks[2] = << <<2, 3>> >>

(* ------------------------------- C13 ---------------------------------- *)
\* request r ended on a failure inside the pipeline (not on the missing file)
C13_InternalFailure(r) ==
    /\ Terminal(r) /\ file[r].present
    /\ \/ file[r].path = Undefined
       \/ bufPromise[r].state = "rejected"
       \/ ProviderRaised(r)
       \/ (ProviderReturned(r) /\ ~AllHaveAlternatives(provided[r][1].results))

\* C13: every internal failure is answered with the same status and the same
\* fixed text: two requests that failed on different stream errors or
\* different provider errors got identical responses, and the body is never
\* the underlying error detail.
C13_GenericMessage ==
    \A r1, r2 \in reqs :
        (C13_InternalFailure(r1) /\ C13_InternalFailure(r2)) =>
            /\ responses[r1] = responses[r2]
            /\ Answered(r1)
            /\ Answer(r1).status = 500
            /\ Answer(r1).send = "Error processing audio file."
            /\ Answer(r1).send \notin
                   {"EIO", "ENOENT", "UNAVAILABLE", "RESOURCE_EXHAUSTED", "INVALID_ARGUMENT"}

\* two requests have failed on two different provider errors
C13_Witness ==
    \E r1, r2 \in reqs :
        /\ Terminal(r1) /\ Terminal(r2)
        /\ ProviderRaised(r1) /\ provided[r1][1].reason = "UNAVAILABLE"
        /\ ProviderRaised(r2) /\ provided[r2][1].reason = "RESOURCE_EXHAUSTED"

(* ------------------------------- C14 ---------------------------------- *)
\* C14: two runs of the handler whose uploads collected to identical bytes
\* and whose provider calls returned identical segments send identical
\* transcription text, in whatever order and interleaving the two runs
\* happened.
C14_Deterministic ==
    \A r1, r2 \in reqs :
        (/\ pc[r1] = "Completed" /\ pc[r2] = "Completed"
         /\ submitted[r1][1].audio.content = submitted[r2][1].audio.content
         /\ provided[r1][1].results = provided[r2][1].results) =>
            /\ Answer(r1).json.transcription = Answer(r2).json.transcription
            /\ responses[r1] = responses[r2]

\* both runs got the same non-empty upload and the same single segment
C14_Witness ==
    /\ reqs = PairReqs
    /\ pc[1] = "Completed" /\ pc[2] = "Completed"
    /\ submitted[1][1].audio.content = <<2, 3>>
    /\ submitted[2][1].audio.content = <<2, 3>>
    /\ provided[1][1].results = <<[alternatives |-> <<TextA>>]>>
    /\ provided[2][1].results = <<[alternatives |-> <<TextA>>]>>

(* ------------------------------- C15 ---------------------------------- *)
\* the moves of a request between the states of its handler
C15_Edges ==
    {<<"Idle", "Received">>, <<"Received", "Collecting">>,
     <<"Collecting", "Transcribing">>, <<"Transcribing", "Completed">>,
     <<"Received", "Failed">>, <<"Collecting", "Failed">>,
     <<"Transcribing", "Failed">>}

\* C15: recognize is invoked only after the stream's end event, with the
\* buffer of everything the stream delivered before that end, and a request
\* moves Received, Collecting, Transcribing, Completed in that order with
\* no state skipped (failures leave from whichever state they occur in).
C15_BufferBeforeTranscribe ==
    /\ [](\A r \in reqs :
            /\ pc[r] \in {"Transcribing", "Completed"} => Len(submitted[r]) = 1
            /\ \A i \in 1..Len(submitted[r]) :
                   /\ EndedFirst(r)
                   /\ submitted[r][i].audio.content = Concat(DataBeforeEnd(events[r])))
    /\ [][\A r \in reqs :
            /\ pc'[r] # pc[r] => <<pc[r], pc'[r]>> \in C15_Edges
            /\ submitted'[r] # submitted[r] =>
                   (EndedFirst(r) /\ pc[r] = "Collecting" /\ pc'[r] = "Transcribing")]_vars

\* a request completed after its stream delivered two chunks and ended
C15_Witness ==
    \E r \in reqs :
        /\ pc[r] = "Completed"
        /\ Len(events[r]) = 3 /\ events[r][3].type = "end"
        /\ Len(submitted[r][1].audio.content) = 3

(* ------------------------------- C16 ---------------------------------- *)
RECURSIVE C16_Offset(_, _)
\* the number of bytes in the chunks before the k-th
C16_Offset(cs, k) == IF k <= 1 THEN 0 ELSE C16_Offset(cs, k - 1) + Len(cs[k - 1])

\* C16: when the stream ends without error, the buffer streamToBuffer
\* resolves with holds the chunks delivered before the end back to back in
\* their order of arrival: the k-th chunk sits right after the bytes of the
\* chunks before it, and the buffer has no other byte.
C16_ConcatInOrder ==
    \A r \in reqs :
        bufPromise[r].state = "fulfilled" =>
            LET cs == DataBeforeEnd(events[r])
                buf == bufPromise[r].buffer
            IN /\ EndedFirst(r)
               /\ Len(buf) = C16_Offset(cs, Len(cs) + 1)
               /\ \A k \in 1..Len(cs) :
                      SubSeq(buf, C16_Offset(cs, k) + 1, C16_Offset(cs, k) + Len(cs[k])) = cs[k]

\* two chunks of different sizes, the longer first, then the end
C16_Witness ==
    \E r \in reqs :
        /\ bufPromise[r].state = "fulfilled"
        /\ DataBeforeEnd(events[r]) = << <<2, 3>>, <<1>> >>
        /\ bufPromise[r].buffer = <<2, 3, 1>>

(* ------------------------------- C17 ---------------------------------- *)
\* C17: streamToBuffer settles exactly once, by the first terminal event of
\* the stream: fulfilled when that is end, rejected when that is error,
\* pending while there is none; events arriving after it change neither the
\* settled outcome nor the buffer already submitted.
C17_SettlesOnce ==
    /\ [](\A r \in reqs :
            collectCalls[r] > 0 =>
                /\ EndedFirst(r) <=> bufPromise[r].state = "fulfilled"
                /\ FailedFirst(r) <=> bufPromise[r].state = "rejected"
                /\ (~EndedFirst(r) /\ ~FailedFirst(r)) <=> bufPromise[r].state = "pending")
    /\ [][\A r \in reqs :
            /\ bufPromise[r].state \in {"fulfilled", "rejected"} =>
                   bufPromise'[r] = bufPromise[r]
            /\ submitted[r] # <<>> => submitted'[r] = submitted[r]]_vars

\* the buffer was handed on, then the stream reported an error and more data
C17_Witness ==
    \E r \in reqs :
        /\ Len(events[r]) = 3
        /\ events[r][1].type = "end" /\ events[r][2].type = "error"
        /\ events[r][3].type = "data"
        /\ bufPromise[r].state = "fulfilled" /\ bufPromise[r].buffer = <<>>
        /\ Len(submitted[r]) = 1

(* ------------------------------- C18 ---------------------------------- *)
\* C18: when the provider returns a segment whose list of alternatives is
\* empty, the request fails as a whole: its only response is status 500
\* with the fixed text, and no text of any segment is sent.
C18_EmptyAlternativesFail ==
    \A r \in reqs :
        (/\ provided[r] # <<>> /\ provided[r][1].ok
         /\ \E i \in 1..Len(provided[r][1].results) :
                Len(provided[r][1].results[i].alternatives) = 0) =>
            /\ pc[r] = "Failed"
            /\ responses[r] = <<[status |-> 500, send |-> "Error processing audio file."]>>

\* the segment without alternatives came first, a segment with text after it
C18_Witness ==
    \E r \in reqs :
        /\ ProviderReturned(r)
        /\ provided[r][1].results =
               <<[alternatives |-> <<>>], [alternatives |-> <<TextB, TextA>>]>>
        /\ pc[r] = "Failed" /\ Answer(r).status = 500

(* ------------------------------- C19 ---------------------------------- *)
\* the stream has emitted end or error
C19_StreamSettled(r) ==
    \E i \in 1..Len(events[r]) : events[r][i].type \in {"end", "error"}

\* the request needs no stream, or its stream has emitted end or error
C19_CanFinish(r) ==
    /\ pc[r] # "Idle"
    /\ (file[r].present /\ file[r].path # Undefined) => C19_StreamSettled(r)

\* C19: a received request whose stream has emitted end or error (or that
\* needs no stream) eventually has its response, the provider call settling;
\* and while the stream has emitted neither, the request stays in Collecting
\* without a response and its handler cannot go on: nothing times it out.
C19_EventuallyAnswered ==
    /\ \A r \in SoloReqs : C19_CanFinish(r) ~> Answered(r)
    /\ [](\A r \in reqs :
            (collectCalls[r] > 0 /\ ~C19_StreamSettled(r)) =>
                /\ pc[r] = "Collecting"
                /\ responses[r] = <<>>
                /\ ~ENABLED AwaitBuffer(r))

\* a request was answered after its stream failed mid-read
C19_Witness ==
    \E r \in reqs :
        /\ C19_StreamSettled(r)
        /\ events[r][1].type = "data" /\ FailedFirst(r)
        /\ Len(events[r]) = MaxEvents
        /\ Answered(r)

====
